---- MODULE Spec2Model ----
(***************************************************************************)
(* A model of the identity-resolution engine of MusicMetaLinker:           *)
(*   linking/deezer_links.py       DeezerAlign       (Streaming Catalog)   *)
(*   linking/musicbrainz_links.py  MusicBrainzAlign  (Canonical-ID Catalog)*)
(*   linking/youtube_links.py      YouTubeAlign      (Video Catalog)       *)
(*   linking/linking.py            Align             (Resolver)            *)
(* and of the batch driver that applies it to the JAMS files of a corpus:  *)
(*   preprocessor.py               JAMSProcessor                           *)
(*   link_partitions.py            complement_jams, retrieve_links         *)
(*                                                                         *)
(* The external services are the environment.  Their answers are held in   *)
(* the variables dzSearch, dzIsrcOk, ... which Init draws from bounded     *)
(* sets and which never change: one behaviour is one fixed catalog state.   *)
(* Text is a sequence of words, None is the empty sequence; an absent      *)
(* number is NoneN.  Every operation returns a record                      *)
(*   [exc, val, calls]                                                     *)
(* exc the exception that leaves it ("none" when it returns), val the      *)
(* value returned, calls the external requests it issued, in order.        *)
(***************************************************************************)
EXTENDS Integers, Sequences, FiniteSets, TLC

VARIABLES
    inp,        \* the arguments the instance under test was constructed with
    aln,        \* the instance under test (its attributes)
    dzSearch,   \* Deezer: the tracks a free-text search returns, in rank order
    dzIsrcOk,   \* Deezer: the ISRC codes whose /track/isrc: lookup succeeds
    mbById,     \* MusicBrainz: the answer to a lookup of the caller's recording ID
    mbRelSearch,\* MusicBrainz: the recordings a search with rid= returns
    mbSearch,   \* MusicBrainz: the recordings a free-text search returns
    mbIsrcOk,   \* MusicBrainz: the ISRC codes whose lookup succeeds
    ytSearch,   \* YouTube Music: the songs a search returns
    abOk,       \* AcousticBrainz: the recording IDs whose page answers 200
    down,       \* the services whose requests fail in transport
    run,        \* retrieve_links: its position, the files and logs written
    last        \* the last operation performed and its outcome

world ==
    <<dzSearch, dzIsrcOk, mbById, mbRelSearch, mbSearch, mbIsrcOk, ytSearch,
      abOk, down>>
vars == <<inp, aln, world, run, last>>

----------------------------------------------------------------------------
(* Values *)

None == <<>>
NoneN == 0 - 1

\* Python truthiness of an optional number: None and 0 are false.
TruthyN(n) == n # NoneN /\ n # 0

\* ISRC values: None, a list of codes, or a bare string holding one code.
NoIsrc == [kind |-> "none", codes |-> <<>>]
IsrcList(cs) == [kind |-> "list", codes |-> cs]
IsrcStr(c) == [kind |-> "str", codes |-> <<c>>]

\* The number of characters of an ISRC string the model keeps.
CodeChars == 2

\* Python truthiness of an ISRC value: None and [] are false.
TruthyIsrc(i) == i.kind # "none" /\ Len(i.codes) > 0

\* "for code in isrc": a list yields its codes, a string its characters.
IterIsrc(i) ==
    IF i.kind = "str" THEN [k \in 1..CodeChars |-> "char"] ELSE i.codes

\* The identifiers the caller may supply, and the recording an ISRC lookup finds.
NoId == "None"
CallerMbid == "rec-in"
CallerRelease == "rel-in"
OtherRelease == "rel-x"
IsrcRecId == "rec-isrc"

\* The track number MusicBrainz lists.
MbTrackNumber == 2

\* The absent value of field f.
NoneOf(f) ==
    CASE f \in {"duration", "track_number"} -> NoneN
      [] f = "id" -> 0
      [] f = "mbid" -> NoId
      [] f = "isrc" -> NoIsrc
      [] OTHER -> None

\* best_match(duration_threshold: int = 3)
DurationThreshold == 3

Ret(v, cs) == [exc |-> "none", val |-> v, calls |-> cs]
Raise(e, cs) == [exc |-> e, val |-> None, calls |-> cs]

----------------------------------------------------------------------------
(* Deezer: the Streaming Catalog and its adapter *)

\* A deezer.Track.  id 0 stands for Python's None.
NoTrack == [id |-> 0, duration |-> NoneN, track_position |-> NoneN, isrc |-> "none"]
DzTrack(i, d, p, c) == [id |-> i, duration |-> d, track_position |-> p, isrc |-> c]

\* The track the catalog holds under ISRC code c: far from every target
\* duration and track number the model uses.
IsrcTrack(c) == DzTrack(IF c = "c1" THEN 101 ELSE 102, 99, 9, c)

\* A textual attribute of a track: the catalog's own text for that track.
DzText(t, f) == IF t.id = 0 THEN None ELSE <<"dz", f, ToString(t.id)>>

\* The attribute f of track t as the accessor for f returns it.
DzAttr(t, f) ==
    CASE f = "duration" -> t.duration
      [] f = "track_number" -> t.track_position
      [] f = "id" -> t.id
      [] f = "isrc" -> IsrcStr(t.isrc)
      [] OTHER -> DzText(t, f)

DeezerAlign(artist, album, track, track_number, duration, isrc, strict) ==
    [artist |-> artist,
     album |-> IF album # None /\ ~strict /\ Len(album) > 1
               THEN SubSeq(album, 1, 2) ELSE album,
     track |-> track,
     track_number |-> track_number,
     duration |-> duration,
     isrc |-> isrc,
     strict |-> strict,
     fuzzy |-> FALSE]

DzSearchCall(d) ==
    [svc |-> "dz", op |-> "search", arg |-> <<d.track, d.artist, d.album>>]
DzIsrcCall(c) == [svc |-> "dz", op |-> "isrc", arg |-> <<c>>]

\* limit = 0 stands for limit=None.
DzGetData(d, limit) ==
    IF "dz" \in down THEN Raise("TransportError", <<DzSearchCall(d)>>)
    ELSE IF Len(dzSearch) = 0 THEN Ret(<<>>, <<DzSearchCall(d)>>)
    ELSE Ret(IF limit = 0 THEN dzSearch ELSE SubSeq(dzSearch, 1, limit),
             <<DzSearchCall(d)>>)

DzFilterDuration(d, results, duration_threshold) ==
    IF d.duration = NoneN \/ ~d.strict THEN results
    ELSE SelectSeq(results,
            LAMBDA res : (IF res.duration >= d.duration
                          THEN res.duration - d.duration
                          ELSE d.duration - res.duration) <= duration_threshold)

\* Variant: the track-number filter keeps every candidate.
DzFilterTrackNumberOff(d, results) == results

DzFilterTrackNumber(d, results) ==
    IF d.track_number = NoneN \/ ~d.strict THEN results
    ELSE SelectSeq(results, LAMBDA res : res.track_position = d.track_number)

RECURSIVE DzIsrcLoop(_, _)
DzIsrcLoop(codes, calls) ==
    IF codes = <<>> THEN Ret(NoTrack, calls)
    ELSE IF Head(codes) \in dzIsrcOk /\ "dz" \notin down
         THEN Ret(IsrcTrack(Head(codes)), Append(calls, DzIsrcCall(Head(codes))))
         ELSE DzIsrcLoop(Tail(codes), Append(calls, DzIsrcCall(Head(codes))))

\* Variant: the ISRC lookup takes the last code the catalog knows and, in
\* strict mode, drops a track whose duration is off target.
DzGetTrackByIsrcFiltered(d) ==
    LET ok == {k \in 1..Len(d.isrc.codes) : d.isrc.codes[k] \in dzIsrcOk}
        t == IF ok = {} THEN NoTrack
             ELSE IsrcTrack(d.isrc.codes[CHOOSE k \in ok : \A j \in ok : j <= k])
    IN  Ret(IF d.strict /\ d.duration # NoneN /\ t.duration # d.duration
            THEN NoTrack ELSE t, <<>>)

DzGetTrackByIsrc(d) ==
    IF ~TruthyIsrc(d.isrc) THEN Ret(NoTrack, <<>>)
    ELSE DzIsrcLoop(IterIsrc(d.isrc), <<>>)

Abs(x) == IF x >= 0 THEN x ELSE -x

\* Variant: the last of the candidates at the smallest distance.
DzClosestIndexLast(d, results) ==
    LET n == Len(results)
        key(k) == Abs(results[k].duration - d.duration)
    IN  CHOOSE k \in 1..n :
            /\ \A j \in 1..n : key(k) <= key(j)
            /\ \A j \in (k+1)..n : key(j) > key(k)

\* durations.index(min(durations, key=...)): the first index holding the
\* duration of the first element that minimises the distance.
DzClosestIndex(d, results) ==
    LET n == Len(results)
        key(k) == Abs(results[k].duration - d.duration)
        m == CHOOSE k \in 1..n :
                /\ \A j \in 1..n : key(k) <= key(j)
                /\ \A j \in 1..(k-1) : key(j) > key(k)
    IN  CHOOSE k \in 1..n :
            /\ results[k].duration = results[m].duration
            /\ \A j \in 1..(k-1) : results[j].duration # results[m].duration

DzBestMatch(d, duration_threshold) ==
    IF ~TruthyN(d.duration) /\ ~TruthyN(d.track_number) /\ ~TruthyIsrc(d.isrc)
    THEN LET r == DzGetData(d, 1)
         IN  IF r.exc # "none" THEN r
             ELSE Ret(IF Len(r.val) > 0 THEN r.val[1] ELSE NoTrack, r.calls)
    ELSE IF TruthyIsrc(d.isrc) THEN DzGetTrackByIsrc(d)
    ELSE LET r == DzGetData(d, 0)
         IN  IF r.exc # "none" THEN r
             ELSE IF Len(r.val) = 0 THEN Ret(NoTrack, r.calls)
             ELSE IF Len(r.val) = 1 THEN Ret(r.val[1], r.calls)
             ELSE LET f1 == DzFilterDuration(d, r.val, duration_threshold)
                      f2 == DzFilterTrackNumber(d, f1)
                  IN  IF TruthyN(d.duration)
                      THEN IF Len(f2) = 0 THEN Raise("ValueError", r.calls)
                           ELSE Ret(f2[DzClosestIndex(d, f2)], r.calls)
                      ELSE Ret(IF Len(f2) > 0 THEN f2[1] ELSE NoTrack, r.calls)

\* An accessor of DeezerAlign: best_match().<attribute>, None when best_match
\* returned None (AttributeError); another exception passes through.
DzAccessor(b, f) ==
    IF b.exc # "none" THEN b
    ELSE IF b.val.id = 0 THEN Ret(NoneOf(f), b.calls)
    ELSE Ret(DzAttr(b.val, f), b.calls)

DzGet(d, f) == DzAccessor(DzBestMatch(d, DurationThreshold), f)

----------------------------------------------------------------------------
(* MusicBrainz: the Canonical-ID Catalog and its adapter *)

\* A recording dict.  id NoId stands for Python's None; keys are the keys the
\* dict holds; releases the ids of its release-list.
NoRec == [id |-> NoId, keys |-> {}, releases |-> <<>>]
Rec(i, keys, rels) == [id |-> i, keys |-> keys, releases |-> rels]

FullKeys == {"title", "artist-credit-phrase", "release-list", "length",
             "isrc-list", "number"}

\* The ISRC the catalog lists for every recording that has an isrc-list.
MbIsrcCode == "c2"

\* The length of every recording that has one, in milliseconds.
MbLengthMs == 11000

\* What get_recording_by_id answers for id: the caller's ID is answered by
\* mbById (NoRec: ResponseError), an ID found by a search is in the catalog.
MbLookup(id) == IF id = CallerMbid THEN mbById ELSE Rec(id, FullKeys, <<CallerRelease>>)

MsOf(duration, isfloat) ==
    IF duration # NoneN /\ isfloat THEN duration * 1000 ELSE duration

MusicBrainzAlignFields(mbid_track, mbid_release, artist, album, track, track_number, duration, isfloat, isrc, strict) ==
    [mbid_track |-> mbid_track,
     mbid_release |-> mbid_release,
     artist |-> artist,
     album |-> album,
     track |-> track,
     track_number |-> track_number,
     duration |-> MsOf(duration, isfloat),
     isrc |-> IF isrc.kind = "str" THEN IsrcList(isrc.codes) ELSE isrc,
     strict |-> strict]

MbCall(op, arg) == [svc |-> "mb", op |-> op, arg |-> arg]

\* _search_by_isrc: the answer to the lookup of the first code, or None.
\* The dict the lookup returns is keyed "isrc"; top names its key.
MbSearchByIsrc(m) ==
    IF ~TruthyIsrc(m.isrc) THEN Ret([top |-> "None", recs |-> <<>>], <<>>)
    ELSE LET c == Head(m.isrc.codes)
         IN  IF "mb" \in down THEN Raise("NetworkError", <<MbCall("isrc", <<c>>)>>)
             ELSE IF c \in mbIsrcOk
             THEN Ret([top |-> "isrc", recs |-> <<Rec(IsrcRecId, FullKeys, <<CallerRelease>>)>>],
                      <<MbCall("isrc", <<c>>)>>)
             ELSE Ret([top |-> "None", recs |-> <<>>], <<MbCall("isrc", <<c>>)>>)

\* _search_by_mbid: {"recording": ...}, or None on ResponseError.
MbSearchByMbid(m) ==
    LET r == MbLookup(m.mbid_track)
    IN  IF "mb" \in down
        THEN Raise("NetworkError", <<MbCall("id", <<m.mbid_track>>)>>)
        ELSE IF r.id = NoId
        THEN Ret([top |-> "None", recs |-> <<>>], <<MbCall("id", <<m.mbid_track>>)>>)
        ELSE Ret([top |-> "recording", recs |-> <<r>>], <<MbCall("id", <<m.mbid_track>>)>>)

\* Variant: the first recording of the result, whatever its releases.
MbFirstOfReleaseAny(recordings, mbid_release) ==
    IF recordings = <<>> THEN NoId ELSE Head(recordings).id

\* _get_track_mbid_from_release, lines 124-131: the loop over the recordings.
RECURSIVE MbFirstOfRelease(_, _)
MbFirstOfRelease(recordings, mbid_release) ==
    IF recordings = <<>> THEN NoId
    ELSE IF \E k \in 1..Len(Head(recordings).releases) :
                Head(recordings).releases[k] = mbid_release
         THEN Head(recordings).id
         ELSE MbFirstOfRelease(Tail(recordings), mbid_release)

MbGetTrackMbidFromRelease(m) ==
    IF "mb" \in down
    THEN Raise("NetworkError",
               <<MbCall("search", <<m.track, m.artist, m.album, m.mbid_release>>)>>)
    ELSE Ret(MbFirstOfRelease(mbRelSearch, m.mbid_release),
             <<MbCall("search", <<m.track, m.artist, m.album, m.mbid_release>>)>>)

MbSearch(m) ==
    IF "mb" \in down
    THEN Raise("NetworkError", <<MbCall("search", <<m.track, m.artist, m.album, NoId>>)>>)
    ELSE Ret(mbSearch, <<MbCall("search", <<m.track, m.artist, m.album, NoId>>)>>)

MbFilterSearchResults(results) ==
    SelectSeq(results, LAMBDA res : "isrc-list" \in res.keys)

NoResult == [top |-> "None", recs |-> <<>>]

\* get_recording, last branch: the search and its filter.
MbSearchFiltered(s) ==
    IF s.exc # "none" THEN s
    ELSE Ret([top |-> "list", recs |-> MbFilterSearchResults(s.val)], s.calls)

\* get_recording after the release search: by ID, by ISRC, or by search.
MbFindRecording(m) ==
    IF m.mbid_track # NoId THEN MbSearchByMbid(m)
    ELSE IF TruthyIsrc(m.isrc) THEN MbSearchByIsrc(m)
    ELSE MbSearchFiltered(MbSearch(m))

\* The outcome of get_recording: r is what the lookup answered, calls the
\* requests issued before it, id the adapter's mbid_track after the call.
MbRecordingOf(id, calls, r) ==
    [exc |-> r.exc, val |-> IF r.exc = "none" THEN r.val ELSE NoResult,
     calls |-> calls \o r.calls, mbid_track |-> id]

\* rel is the answer of the release search, which replaces self.mbid_track.
MbRecordingAfter(m, rel) ==
    IF rel.exc # "none"
    THEN [exc |-> rel.exc, val |-> NoResult, calls |-> rel.calls,
          mbid_track |-> m.mbid_track]
    ELSE MbRecordingOf(rel.val, rel.calls,
                       MbFindRecording([m EXCEPT !.mbid_track = rel.val]))

\* get_recording: val is [top, recs], top "list" for a list of recordings;
\* mbid_track is the adapter's attribute after the call.
MbGetRecording(m) ==
    MbRecordingAfter(m, IF m.mbid_release # NoId THEN MbGetTrackMbidFromRelease(m)
                        ELSE Ret(m.mbid_track, <<>>))

\* get_best_match, evaluated once by __init__ (self.best_match).
MbBestOf(r) ==
    [exc |-> r.exc,
     val |-> IF r.val.top = "list" /\ Len(r.val.recs) > 0 THEN r.val.recs[1]
             ELSE IF r.val.top = "recording" THEN r.val.recs[1]
             ELSE NoRec,
     calls |-> r.calls, mbid_track |-> r.mbid_track]

MbGetBestMatch(m) == MbBestOf(MbGetRecording(m))

MbText(r, f) == <<"mb", f, r.id>>

\* The value the accessor for field f reads from recording r.
MbAttr(r, f) ==
    CASE f = "mbid" -> r.id
      [] f = "track" ->
            IF "title" \in r.keys THEN MbText(r, f) ELSE None
      [] f = "artist" ->
            IF "artist-credit-phrase" \in r.keys THEN MbText(r, f) ELSE None
      [] f \in {"album", "release_date"} ->
            IF "release-list" \in r.keys THEN MbText(r, f) ELSE None
      [] f = "duration" ->
            IF "length" \in r.keys THEN MbLengthMs \div 1000 ELSE NoneN
      [] f = "isrc" ->
            IF "isrc-list" \in r.keys THEN IsrcList(<<MbIsrcCode>>) ELSE NoIsrc
      [] f = "track_number" ->
            IF {"release-list", "number"} \subseteq r.keys THEN MbTrackNumber ELSE NoneN

\* The accessor for field f, given the best match __init__ stored.
MbAccess(best, f) == IF best.id = NoId THEN NoneOf(f) ELSE MbAttr(best, f)

\* MusicBrainzAlign(...).get_<f>(): a new adapter is built from the attributes
\* m, which runs get_best_match, and its accessor is called.
MbAccessor(b, f) ==
    IF b.exc # "none" THEN Raise(b.exc, b.calls)
    ELSE Ret(MbAccess(b.val, f), b.calls)

MbGet(m, f) == MbAccessor(MbGetBestMatch(m), f)

----------------------------------------------------------------------------
(* YouTube Music: the Video Catalog and its adapter *)

NoSong == [id |-> 0, keys |-> {}]
Song(i, keys) == [id |-> i, keys |-> keys]

YtKeys == {"videoId", "title", "artists", "album", "duration_seconds", "year"}

\* duration_seconds of every song that has one.
YtDuration == 13

YouTubeAlign(artist, album, track, track_number, duration, isrc, strict) ==
    [track |-> track, artist |-> artist, album |-> album,
     track_number |-> track_number, duration |-> duration, isrc |-> isrc,
     strict |-> strict]

YtSearchCall(y) ==
    [svc |-> "yt", op |-> "search", arg |-> <<y.artist, y.track, y.album>>]

YtSearch(y) ==
    IF "yt" \in down THEN Raise("TransportError", <<YtSearchCall(y)>>)
    ELSE Ret(ytSearch, <<YtSearchCall(y)>>)

YtFirst(r) ==
    IF r.exc # "none" THEN r
    ELSE Ret(IF Len(r.val) > 0 THEN r.val[1] ELSE NoSong, r.calls)

YtGetBestMatch(y) == YtFirst(YtSearch(y))

YtKeyOf(f) ==
    CASE f = "artist" -> "artists"
      [] f = "album" -> "album"
      [] f = "track" -> "title"
      [] f = "duration" -> "duration_seconds"
      [] f = "link" -> "videoId"
      [] OTHER -> "year"

\* get_youtube_<f>: None on KeyError or TypeError.
YtAccessor(b, f) ==
    IF b.exc # "none" THEN b
    ELSE IF b.val.id = 0 \/ YtKeyOf(f) \notin b.val.keys THEN Ret(NoneOf(f), b.calls)
    ELSE IF f = "duration" THEN Ret(YtDuration, b.calls)
    ELSE Ret(<<"yt", f, ToString(b.val.id)>>, b.calls)

YtGet(y, f) == YtAccessor(YtGetBestMatch(y), f)

----------------------------------------------------------------------------
(* Align: the Resolver *)

mb_link(self) ==
    MusicBrainzAlignFields(self.mbid_track, self.mbid_release, self.artist,
                           self.album, self.track, self.track_number,
                           self.duration, self.isfloat, self.isrc, self.strict)

dz_link(self) ==
    DeezerAlign(self.artist, self.album, self.track, self.track_number,
                self.duration, self.isrc, self.strict)

yt_link(self) ==
    YouTubeAlign(self.artist, self.album, self.track, self.track_number,
                 self.duration, self.isrc, self.strict)

\* A step of Align.__init__ takes and returns [self, calls, failed, exc]:
\* the attributes, the requests issued so far, whether an exception ended
\* the try block, and the exception that leaves __init__ ("none" when it was
\* ResponseError, which is caught).  Assign is "self.<f> = r" for the
\* adapter's answer r.
Assign(st, f, r) ==
    IF r.exc = "ResponseError"
    THEN [self |-> [st.self EXCEPT !.mbid_track = NoId],
          calls |-> st.calls \o r.calls, failed |-> TRUE, exc |-> "none"]
    ELSE IF r.exc # "none"
    THEN [self |-> st.self, calls |-> st.calls \o r.calls, failed |-> TRUE,
          exc |-> r.exc]
    ELSE [self |-> [st.self EXCEPT ![f] = r.val],
          calls |-> st.calls \o r.calls, failed |-> FALSE, exc |-> "none"]

\* Align.__init__, line 119: self.isrc = self.mb_link.get_isrc().
InitIsrc(st) == Assign(st, "isrc", MbGet(mb_link(st.self), "isrc"))

\* Variant: __init__ takes track and artist from MusicBrainz even when given.
InitTextAlways(st, f) ==
    IF st.failed THEN st ELSE Assign(st, f, MbGet(mb_link(st.self), f))

\* Align.__init__, lines 120-123: track and artist, each only when not given.
InitText(st, f) ==
    IF st.failed \/ st.self[f] # None THEN st
    ELSE Assign(st, f, MbGet(mb_link(st.self), f))

\* Align.__init__: the attributes after construction and the requests issued.
AlignStart(a) ==
    [self |-> [a EXCEPT !.isrc = IF a.isrc.kind = "str"
                                  THEN IsrcList(a.isrc.codes) ELSE a.isrc],
     calls |-> <<>>, failed |-> FALSE, exc |-> "none"]

AlignInit(a) ==
    IF a.mbid_track = NoId THEN AlignStart(a)
    ELSE InitText(InitText(InitIsrc(AlignStart(a)), "track"), "artist")

\* One source of a getter's fallback chain and what it answers.
Step(src, r) == [src |-> src, r |-> r]

\* "if x is None: x = <next source>": the sources are asked in order until one
\* answers or raises.  consulted lists the sources asked and their answers.
RECURSIVE Fallback(_, _, _, _)
Fallback(steps, none, calls, consulted) ==
    IF steps = <<>>
    THEN [exc |-> "none", val |-> none, calls |-> calls, consulted |-> consulted]
    ELSE LET s == Head(steps)
         IN  IF s.r.exc # "none"
             THEN [exc |-> s.r.exc, val |-> none, calls |-> calls \o s.r.calls,
                   consulted |-> Append(consulted, [src |-> s.src, val |-> none])]
             ELSE IF s.r.val # none
             THEN [exc |-> "none", val |-> s.r.val, calls |-> calls \o s.r.calls,
                   consulted |-> Append(consulted, [src |-> s.src, val |-> s.r.val])]
             ELSE Fallback(Tail(steps), none, calls \o s.r.calls,
                           Append(consulted, [src |-> s.src, val |-> none]))

Supplied(v) == [exc |-> "none", val |-> v, calls |-> <<>>, consulted |-> <<>>]

MbFirst(self, f) ==
    IF self.mbid_track # NoId THEN <<Step("mb", MbGet(mb_link(self), f))>> ELSE <<>>

\* get_artist, get_album, get_track
GetText(self, f) ==
    IF self[f] # None THEN Supplied(self[f])
    ELSE Fallback(MbFirst(self, f) \o
                  <<Step("dz", DzGet(dz_link(self), f)),
                    Step("mb", MbGet(mb_link(self), f)),
                    Step("yt", YtGet(yt_link(self), f))>>,
                  None, <<>>, <<>>)

GetTrackNumber(self) ==
    IF TruthyN(self.track_number) THEN Supplied(self.track_number)
    ELSE Fallback(MbFirst(self, "track_number") \o
                  <<Step("dz", DzGet(dz_link(self), "track_number")),
                    Step("mb", MbGet(mb_link(self), "track_number"))>>,
                  NoneN, <<>>, <<>>)

GetDuration(self) ==
    IF TruthyN(self.duration) THEN Supplied(self.duration)
    ELSE Fallback(MbFirst(self, "duration") \o
                  <<Step("dz", DzGet(dz_link(self), "duration")),
                    Step("mb", MbGet(mb_link(self), "duration")),
                    Step("yt", YtGet(yt_link(self), "duration"))>>,
                  NoneN, <<>>, <<>>)

\* get_isrc; the value found is stored in self.isrc by the action.
GetIsrc(self) ==
    IF TruthyIsrc(self.isrc) THEN Supplied(self.isrc)
    ELSE Fallback(MbFirst(self, "isrc") \o
                  <<Step("dz", DzGet(dz_link(self), "isrc")),
                    Step("mb", MbGet(mb_link(self), "isrc"))>>,
                  NoIsrc, <<>>, <<>>)

GetReleaseDate(self) ==
    IF self.mbid_track # NoId
    THEN Fallback(<<Step("mb", MbGet(mb_link(self), "release_date"))>>,
                  None, <<>>, <<>>)
    ELSE Fallback(<<Step("dz", DzGet(dz_link(self), "release_date"))>>,
                  None, <<>>, <<>>)

GetMbid(self) ==
    IF self.mbid_track # NoId THEN Supplied(self.mbid_track)
    ELSE Fallback(<<Step("mb", MbGet(mb_link(self), "mbid"))>>, NoId, <<>>, <<>>)

GetDeezerId(self) ==
    Fallback(<<Step("dz", DzGet(dz_link(self), "id"))>>, 0, <<>>, <<>>)

GetDeezerLink(self) ==
    Fallback(<<Step("dz", DzGet(dz_link(self), "link"))>>, None, <<>>, <<>>)

GetYoutubeLink(self) ==
    Fallback(<<Step("yt", YtGet(yt_link(self), "link"))>>, None, <<>>, <<>>)

\* acousticbrainz_link(mbid): the URL when requests.get answers 200.
AbUrl(mbid) == <<"ab", mbid>>
AcousticbrainzLink(mbid) ==
    IF "ab" \in down
    THEN Raise("TransportError", <<[svc |-> "ab", op |-> "probe", arg |-> <<mbid>>]>>)
    ELSE Ret(IF mbid \in abOk THEN AbUrl(mbid) ELSE None,
             <<[svc |-> "ab", op |-> "probe", arg |-> <<mbid>>]>>)

GetAcousticbrainzLink(self) ==
    IF self.mbid_track # NoId
    THEN Fallback(<<Step("ab", AcousticbrainzLink(self.mbid_track))>>,
                  None, <<>>, <<>>)
    ELSE Supplied(None)

----------------------------------------------------------------------------
(* The instances and catalog states the model explores *)

ArtistIn == <<"The", "Beatles">>
AlbumIn == <<"Abbey", "Road", "Deluxe">>
TrackIn == <<"Something">>

\* The caller's target duration (seconds) and track number.
DurationIn == 10
TrackNumberIn == 1

Codes == {"c1", "c2"}

\* The longest search result list and ISRC list of the adapter specification.
MaxCand == 3
MaxIsrc == 2
MaxRecs == 2

SeqsUpTo(S, n) == UNION {[1..k -> S] : k \in 0..n}

\* Search results: the k-th track has id k.
DzResults(n) ==
    {[k \in 1..Len(q) |-> DzTrack(k, q[k][1], q[k][2], "c3")] :
        q \in SeqsUpTo({6, 8, 12} \X {1, 2}, n)}

IsrcInputs ==
    {NoIsrc, IsrcStr("c1")} \cup
    {IsrcList(cs) : cs \in {q \in SeqsUpTo(Codes, MaxIsrc) :
                                \A i, j \in 1..Len(q) : i # j => q[i] # q[j]}}

\* run while no batch is running.
NoRun == [p |-> 0, k |-> 0, df_list |-> <<>>, aligned |-> <<>>, logs |-> <<>>,
          exc |-> "none"]

\* last: the operation op (of field f, for an accessor) and its outcome.
NoOp == [op |-> "none", f |-> "", exc |-> "none", val |-> None, calls |-> <<>>,
         consulted |-> <<>>]

Done(op, f, r) ==
    [op |-> op, f |-> f, exc |-> r.exc, val |-> r.val, calls |-> r.calls,
     consulted |-> <<>>]

\* The arguments of an Align.
AlignArgs ==
    [mbid_track : {NoId, CallerMbid},
     mbid_release : {NoId, CallerRelease},
     artist : {None, ArtistIn},
     album : {None, AlbumIn},
     track : {None, TrackIn},
     track_number : {NoneN, TrackNumberIn},
     duration : {NoneN, DurationIn},
     isfloat : {TRUE},
     isrc : {NoIsrc, IsrcList(<<"c1">>)},
     strict : BOOLEAN]

NearTrack == DzTrack(1, 12, 1, "c3")
FarTrack == DzTrack(2, 30, 2, "c3")
FarTrack2 == DzTrack(1, 20, 2, "c3")

PartialRec == Rec(CallerMbid, {"title"}, <<>>)

\* The recording IDs of the catalog states of InitWorldAlign.
RecIds == {CallerMbid, "rec-a", "rec-b", "rec-s"}

InitWorldAlign ==
    /\ dzSearch \in {<<>>, <<NearTrack>>, <<NearTrack, FarTrack>>,
                     <<FarTrack2, FarTrack>>}
    /\ dzIsrcOk \in {{}, Codes}
    /\ mbById \in {NoRec, Rec(CallerMbid, FullKeys, <<CallerRelease>>), PartialRec}
    /\ mbRelSearch \in {<<>>, <<Rec("rec-a", FullKeys, <<OtherRelease>>),
                                Rec("rec-b", FullKeys, <<OtherRelease, CallerRelease>>)>>}
    /\ mbSearch \in {<<>>, <<Rec("rec-s", FullKeys, <<OtherRelease>>)>>}
    /\ mbIsrcOk \in {{}}
    /\ ytSearch \in {<<>>, <<Song(1, YtKeys)>>}

Init ==
    /\ inp \in AlignArgs
    /\ InitWorldAlign
    /\ abOk \in {{}, RecIds}
    /\ down = {}
    /\ inp.mbid_track = NoId => mbById = NoRec
    /\ inp.mbid_release = NoId => mbRelSearch = <<>>
    /\ aln = inp
    /\ run = NoRun
    /\ last = NoOp

\* Align(...): the constructor runs on the arguments.
construct ==
    /\ last.op = "none"
    /\ LET r == AlignInit(inp)
       IN  /\ aln' = r.self
           /\ last' = [op |-> "__init__", f |-> "", exc |-> r.exc, val |-> None,
                       calls |-> r.calls, consulted |-> <<>>]
    /\ UNCHANGED <<inp, world, run>>

\* A getter is called on a constructed instance.  Only get_isrc assigns an
\* attribute, so the attributes before any call are those the constructor or
\* a get_isrc left: the getters are explored from these states.
Constructed ==
    \/ last.op = "__init__" /\ last.exc = "none"
    \/ last.op = "get_isrc"

Getter(op, r) ==
    /\ Constructed
    /\ last' = [op |-> op, f |-> "", exc |-> r.exc, val |-> r.val,
                calls |-> r.calls, consulted |-> r.consulted]
    /\ UNCHANGED <<inp, world, run>>

get_artist == Getter("get_artist", GetText(aln, "artist")) /\ UNCHANGED aln
get_album == Getter("get_album", GetText(aln, "album")) /\ UNCHANGED aln
get_track == Getter("get_track", GetText(aln, "track")) /\ UNCHANGED aln
get_track_number ==
    Getter("get_track_number", GetTrackNumber(aln)) /\ UNCHANGED aln
get_duration == Getter("get_duration", GetDuration(aln)) /\ UNCHANGED aln
get_isrc ==
    LET r == GetIsrc(aln)
    IN  /\ Getter("get_isrc", r)
        /\ aln' = IF r.exc = "none" /\ r.consulted # <<>>
                  THEN [aln EXCEPT !.isrc = r.val] ELSE aln
get_release_date ==
    Getter("get_release_date", GetReleaseDate(aln)) /\ UNCHANGED aln
get_mbid == Getter("get_mbid", GetMbid(aln)) /\ UNCHANGED aln
get_deezer_id == Getter("get_deezer_id", GetDeezerId(aln)) /\ UNCHANGED aln
get_deezer_link == Getter("get_deezer_link", GetDeezerLink(aln)) /\ UNCHANGED aln
get_youtube_link ==
    Getter("get_youtube_link", GetYoutubeLink(aln)) /\ UNCHANGED aln
get_acousticbrainz_link ==
    Getter("get_acousticbrainz_link", GetAcousticbrainzLink(aln)) /\ UNCHANGED aln

Next ==
    \/ construct
    \/ get_artist
    \/ get_album
    \/ get_track
    \/ get_track_number
    \/ get_duration
    \/ get_isrc
    \/ get_release_date
    \/ get_mbid
    \/ get_deezer_id
    \/ get_deezer_link
    \/ get_youtube_link
    \/ get_acousticbrainz_link

Spec == Init /\ [][Next]_vars

\* The same Align when requests to a service fail in transport: one service
\* at a time, or all of them.
Services == {"dz", "mb", "yt", "ab"}

TransportArgs ==
    {a \in AlignArgs : /\ a.mbid_release = NoId /\ ~a.strict
                       /\ a.album = None /\ a.track_number = NoneN}

InitTransport ==
    /\ inp \in TransportArgs
    /\ InitWorldAlign
    /\ inp.mbid_track = NoId => mbById = NoRec
    /\ mbRelSearch = <<>>
    /\ abOk = RecIds
    /\ down \in {{v} : v \in Services} \cup {Services}
    /\ aln = inp
    /\ run = NoRun
    /\ last = NoOp

SpecTransport == InitTransport /\ [][Next]_vars

----------------------------------------------------------------------------
(* The batch driver: JAMSProcessor, complement_jams and retrieve_links *)

\* A title is a sequence of symbols: a word, or one of the characters
\* " ", "-", "[" and "]".
Dash == <<" ", "-", " ">>
Whitespace == {" "}

\* str.strip(chars)
RECURSIVE LStrip(_, _)
LStrip(s, chars) ==
    IF s # <<>> /\ Head(s) \in chars THEN LStrip(Tail(s), chars) ELSE s

RECURSIVE RStrip(_, _)
RStrip(s, chars) ==
    IF s # <<>> /\ s[Len(s)] \in chars
    THEN RStrip(SubSeq(s, 1, Len(s) - 1), chars) ELSE s

Strip(s, chars) == RStrip(LStrip(s, chars), chars)

\* The first position of sep in s, 0 when s does not contain it.
Find(s, sep) ==
    LET hits == {i \in 1..(Len(s) - Len(sep) + 1) :
                    SubSeq(s, i, i + Len(sep) - 1) = sep}
    IN  IF hits = {} THEN 0 ELSE CHOOSE i \in hits : \A j \in hits : i <= j

\* "sep in s"
Contains(s, sep) == Find(s, sep) # 0

\* s.split(sep)[0], and s.split(sep)[1] for an s that contains sep.
SplitFirstAt(s, i) == IF i = 0 THEN s ELSE SubSeq(s, 1, i - 1)
SplitFirst(s, sep) == SplitFirstAt(s, Find(s, sep))
SplitRestAt(s, sep, i) == SubSeq(s, i + Len(sep), Len(s))
SplitSecond(s, sep) == SplitFirst(SplitRestAt(s, sep, Find(s, sep)), sep)

\* retrieve_links, lines 182-184: the "T [A]" form.
BiabBracket(track_title, artist_name) ==
    IF Contains(track_title, <<"[">>) /\ Contains(track_title, <<"]">>)
    THEN [track |-> Strip(SplitFirst(track_title, <<"[">>), Whitespace),
          artist |-> Strip(SplitSecond(track_title, <<"[">>), {"]"})]
    ELSE [track |-> track_title, artist |-> artist_name]

\* retrieve_links, lines 179-181: the "T - A" form.
BiabDash(track_title, artist_name) ==
    IF Contains(track_title, Dash)
    THEN BiabBracket(Strip(SplitFirst(track_title, Dash), Whitespace),
                     SplitSecond(track_title, Dash))
    ELSE BiabBracket(track_title, artist_name)

\* retrieve_links, lines 177-184: track and artist of a biab-internet-corpus
\* record.
BiabTitle(track_title, artist_name) ==
    BiabDash(Strip(track_title, Whitespace), artist_name)

\* partitions_map.py with the partitions of the model enabled.
AUDIO_PARTITIONS == {"isophonics", "schubert-winterreise"}
SCORE_PARTITIONS == {"biab-internet-corpus"}

\* filter_partition(partition, limit=None): the partition type.
PartitionType(name) ==
    IF name \in AUDIO_PARTITIONS THEN "audio"
    ELSE IF name \in SCORE_PARTITIONS THEN "score" ELSE "None"

\* A list of names of the sandbox (composers, performers), or None.
NoNames == [kind |-> "none", names |-> <<>>]
Names(q) == [kind |-> "list", names |-> q]
TruthyNames(n) == n.kind = "list" /\ Len(n.names) > 0

\* 'and'.join(names): the pieces of the joined string, which has no spaces.
RECURSIVE JoinAnd(_)
JoinAnd(names) ==
    IF Len(names) <= 1 THEN names
    ELSE <<Head(names), "and">> \o JoinAnd(Tail(names))

\* The sandbox attributes JAMSProcessor reads in one try block.
SandboxAttrs == {"track_number", "release_year", "composers", "performers"}

\* What JAMSProcessor answers when its constructor raises.
NoJams == [jams_file |-> "", track_name |-> None, artist_name |-> None,
           album_name |-> None, duration |-> NoneN, identifiers |-> <<>>,
           musicbrainz_id |-> NoId, type |-> "None", track_number |-> NoneN,
           release_year |-> None, composers |-> NoNames, performers |-> NoNames]

\* Lines 59-62: the type of the sandbox, 'score' on KeyError.
JamsType(j) == IF j.type = "None" THEN "score" ELSE j.type

\* Lines 64-73: the four attributes, all None when one of them raises
\* AttributeError.
SandboxRead(j) ==
    IF SandboxAttrs \subseteq j.sandbox
    THEN [track_number |-> j.track_number, release_year |-> j.release_year,
          composers |-> j.composers, performers |-> j.performers]
    ELSE [track_number |-> NoneN, release_year |-> None,
          composers |-> NoNames, performers |-> NoNames]

\* Lines 77-81: the artist of a record without one.  str.join raises
\* TypeError on None.
DefaultArtist(artist, type, sb) ==
    IF artist # None \/ ~(TruthyNames(sb.composers) \/ TruthyNames(sb.performers))
    THEN [exc |-> "none", val |-> artist]
    ELSE IF type = "score"
    THEN IF sb.composers.kind = "none" THEN [exc |-> "TypeError", val |-> artist]
         ELSE [exc |-> "none", val |-> JoinAnd(sb.composers.names)]
    ELSE IF type = "audio"
    THEN IF sb.performers.kind = "none" THEN [exc |-> "TypeError", val |-> artist]
         ELSE [exc |-> "none", val |-> JoinAnd(sb.performers.names)]
    ELSE [exc |-> "none", val |-> artist]

JAMSProcessorOf(j, type, sb, a) ==
    IF a.exc # "none" THEN [exc |-> a.exc, val |-> NoJams]
    ELSE [exc |-> "none",
          val |-> [jams_file |-> j.file,
                   track_name |-> j.title,
                   artist_name |-> a.val,
                   album_name |-> j.album,
                   duration |-> j.duration,
                   identifiers |-> j.identifiers,
                   musicbrainz_id |->
                       IF "musicbrainz" \in DOMAIN j.identifiers
                       THEN j.identifiers["musicbrainz"] ELSE NoId,
                   type |-> type,
                   track_number |-> sb.track_number,
                   release_year |-> sb.release_year,
                   composers |-> sb.composers,
                   performers |-> sb.performers]]

\* JAMSProcessor(jams_file): the attributes read from the file; KeyError when
\* the sandbox has no genre.
JAMSProcessor(j) ==
    IF ~j.genre THEN [exc |-> "KeyError", val |-> NoJams]
    ELSE JAMSProcessorOf(j, JamsType(j), SandboxRead(j),
                         DefaultArtist(j.artist, JamsType(j), SandboxRead(j)))

\* write_jams: the metadata and the sandbox of the new JAMS file.
WriteJams(jp) ==
    [file_metadata |-> [title |-> jp.track_name, artist |-> jp.artist_name,
                        release |-> jp.album_name, duration |-> jp.duration,
                        identifiers |-> jp.identifiers],
     sandbox |-> [type |-> jp.type, track_number |-> jp.track_number,
                  release_year |-> jp.release_year,
                  composers |-> jp.composers, performers |-> jp.performers]]

\* retrieve_links, lines 162-196: the arguments of the Align of one record.
\* t is the track and artist after the treatment of the partition.
LinkerArgsOf(name, jp, t) ==
    [mbid_track |-> IF name = "schubert-winterreise" THEN NoId
                    ELSE jp.musicbrainz_id,
     mbid_release |-> IF name = "schubert-winterreise" THEN jp.musicbrainz_id
                      ELSE NoId,
     artist |-> t.artist,
     album |-> jp.album_name,
     track |-> t.track,
     track_number |-> jp.track_number,
     duration |-> IF PartitionType(name) = "audio" THEN jp.duration ELSE NoneN,
     isfloat |-> TRUE,
     isrc |-> NoIsrc,
     strict |-> FALSE]

LinkerArgs(name, jp) ==
    LinkerArgsOf(name, jp,
                 IF name = "biab-internet-corpus"
                 THEN BiabTitle(jp.track_name, jp.artist_name)
                 ELSE [track |-> jp.track_name, artist |-> jp.artist_name])

\* The getters complement_jams calls, in the order it calls them.
ComplementOrder ==
    <<"get_track", "get_artist", "get_album", "get_track_number",
      "get_duration", "get_release_date", "get_mbid",
      "get_acousticbrainz_link", "get_isrc", "get_deezer_id",
      "get_deezer_link", "get_youtube_link">>

GetterResult(op, self) ==
    CASE op = "get_track" -> GetText(self, "track")
      [] op = "get_artist" -> GetText(self, "artist")
      [] op = "get_album" -> GetText(self, "album")
      [] op = "get_track_number" -> GetTrackNumber(self)
      [] op = "get_duration" -> GetDuration(self)
      [] op = "get_release_date" -> GetReleaseDate(self)
      [] op = "get_mbid" -> GetMbid(self)
      [] op = "get_acousticbrainz_link" -> GetAcousticbrainzLink(self)
      [] op = "get_isrc" -> GetIsrc(self)
      [] op = "get_deezer_id" -> GetDeezerId(self)
      [] op = "get_deezer_link" -> GetDeezerLink(self)
      [] op = "get_youtube_link" -> GetYoutubeLink(self)

\* The linker after the getter op answered r, and the answers so far.
AfterGetter(st, op, r) ==
    [self |-> IF op = "get_isrc" /\ r.exc = "none" /\ r.consulted # <<>>
              THEN [st.self EXCEPT !.isrc = r.val] ELSE st.self,
     exc |-> r.exc,
     vals |-> (op :> r.val) @@ st.vals]

RECURSIVE RunGetters(_, _)
RunGetters(ops, st) ==
    IF ops = <<>> \/ st.exc # "none" THEN st
    ELSE RunGetters(Tail(ops),
                    AfterGetter(st, Head(ops), GetterResult(Head(ops), st.self)))

\* The linker as Align.__init__ left it, before the first getter.
LinkerStart(i) == [self |-> i.self, exc |-> i.exc, vals |-> <<>>]

LinkKeys == {"musicbrainz", "acousticbrainz", "isrc", "deezer_id",
             "deezer_url", "youtube_url", "spotify_id"}

\* complement_jams, lines 77-84, with isrc=None and spotify_id=None.
Links(vals) ==
    [k \in LinkKeys |->
        CASE k = "musicbrainz" -> vals["get_mbid"]
          [] k = "acousticbrainz" -> vals["get_acousticbrainz_link"]
          [] k = "isrc" -> vals["get_isrc"]
          [] k = "deezer_id" -> vals["get_deezer_id"]
          [] k = "deezer_url" -> vals["get_deezer_link"]
          [] k = "youtube_url" -> vals["get_youtube_link"]
          [] k = "spotify_id" -> None]

\* Variant: on a collision the original value is kept.
MergeIdentifiersKeep(original_identifiers, links) ==
    [k \in DOMAIN original_identifiers \cup DOMAIN links |->
        IF k \in DOMAIN original_identifiers THEN original_identifiers[k]
        ELSE links[k]]

\* {**original_identifiers, **links}
MergeIdentifiers(original_identifiers, links) ==
    [k \in DOMAIN original_identifiers \cup DOMAIN links |->
        IF k \in DOMAIN links THEN links[k] ELSE original_identifiers[k]]

\* complement_jams, lines 96-110: the row appended to df_list.
Row(jams_file, vals, links) ==
    [jams_file |-> jams_file,
     track_name |-> vals["get_track"],
     artist_name |-> vals["get_artist"],
     album_name |-> vals["get_album"],
     track_number |-> vals["get_track_number"],
     duration |-> vals["get_duration"],
     release_year |-> vals["get_release_date"],
     musicbrainz |-> links["musicbrainz"],
     isrc |-> links["isrc"],
     deezer_id |-> links["deezer_id"],
     deezer_url |-> links["deezer_url"],
     youtube_url |-> links["youtube_url"],
     acousticbrainz |-> links["acousticbrainz"],
     spotify_id |-> links["spotify_id"]]

\* complement_jams, lines 87-93: the attributes written to jams_process.
Complemented(jp, vals, links) ==
    [jp EXCEPT !.track_name = vals["get_track"],
               !.artist_name = vals["get_artist"],
               !.album_name = vals["get_album"],
               !.track_number = vals["get_track_number"],
               !.duration = vals["get_duration"],
               !.release_year = vals["get_release_date"],
               !.identifiers = MergeIdentifiers(jp.identifiers, links)]

\* complement_jams(linker, jams_process, df_list, jams_file): st is the linker
\* after the getters.  An exception of a getter leaves complement_jams.
ComplementJamsOf(jp, st) ==
    IF st.exc # "none"
    THEN [exc |-> st.exc, jams |-> jp, row |-> <<>>, self |-> st.self]
    ELSE [exc |-> "none",
          jams |-> Complemented(jp, st.vals, Links(st.vals)),
          row |-> Row(jp.jams_file, st.vals, Links(st.vals)),
          self |-> st.self]

ComplementJams(linker, jp) ==
    ComplementJamsOf(jp, RunGetters(ComplementOrder, LinkerStart(linker)))

\* retrieve_links, lines 157-199: one JAMS file of partition name is read,
\* its Align is built and complement_jams is applied.  r is what
\* JAMSProcessor answered.
LinkRead(name, r) ==
    IF r.exc # "none"
    THEN [exc |-> r.exc, jams |-> NoJams, row |-> <<>>, self |-> <<>>]
    ELSE ComplementJams(AlignInit(LinkerArgs(name, r.val)), r.val)

LinkFile(name, j) == LinkRead(name, JAMSProcessor(j))

\* The JAMS files of the model.  identifiers is the dict of the file; genre
\* tells whether its sandbox has a genre; aligned whether jams-aligned
\* already holds a file of its name.
OrigYoutube == <<"orig", "youtube_url">>

FileA ==
    [file |-> "a.jams", title |-> TrackIn, artist |-> ArtistIn, album |-> None,
     duration |-> DurationIn, track_number |-> NoneN, identifiers |-> <<>>,
     genre |-> TRUE, aligned |-> FALSE, type |-> "None",
     sandbox |-> SandboxAttrs, release_year |-> None,
     composers |-> NoNames, performers |-> NoNames]

FileB ==
    [file |-> "b.jams", title |-> <<"Something", " ", "-", " ", "Beatles">>,
     artist |-> None, album |-> None, duration |-> NoneN,
     track_number |-> NoneN,
     identifiers |-> ("musicbrainz" :> CallerMbid) @@
                     ("youtube_url" :> OrigYoutube) @@ ("imslp" :> "imslp-1"),
     genre |-> TRUE, aligned |-> FALSE, type |-> "None",
     sandbox |-> SandboxAttrs, release_year |-> None,
     composers |-> NoNames, performers |-> NoNames]

FileC ==
    [file |-> "c.jams", title |-> TrackIn, artist |-> None, album |-> None,
     duration |-> NoneN, track_number |-> NoneN, identifiers |-> <<>>,
     genre |-> FALSE, aligned |-> FALSE, type |-> "None",
     sandbox |-> SandboxAttrs, release_year |-> None,
     composers |-> NoNames, performers |-> NoNames]

\* A record of an earlier run: jams-aligned already holds d.jams.
FileD == [FileA EXCEPT !.file = "d.jams", !.aligned = TRUE]

JamsFiles == {FileA, FileB, FileC, FileD}

\* The most JAMS files of a partition.
MaxFiles == 2

\* jams_path.glob("*.jams"): files of different names, in any order.
FileLists ==
    {q \in SeqsUpTo(JamsFiles, MaxFiles) :
        \A i, j \in 1..Len(q) : i # j => q[i] # q[j]}

PartitionNames == {"isophonics", "schubert-winterreise", "biab-internet-corpus"}

\* partitions_path.iterdir(): two partitions.
Directories ==
    {<<[name |-> n1, files |-> f1], [name |-> n2, files |-> f2]>> :
        <<n1, n2, f1, f2>> \in
            {t \in PartitionNames \X PartitionNames \X FileLists \X FileLists :
                t[1] # t[2]}}

\* The catalog states of the batch: every service without a candidate, or
\* every service with one.
InitWorldBatch ==
    \/ /\ dzSearch = <<>> /\ mbById = NoRec /\ mbRelSearch = <<>>
       /\ mbSearch = <<>> /\ ytSearch = <<>> /\ abOk = {}
    \/ /\ dzSearch = <<NearTrack>>
       /\ mbById = Rec(CallerMbid, FullKeys, <<CallerRelease>>)
       /\ mbRelSearch = <<Rec("rec-a", FullKeys, <<OtherRelease>>),
                          Rec("rec-b", FullKeys, <<CallerMbid>>)>>
       /\ mbSearch = <<Rec("rec-s", FullKeys, <<OtherRelease>>)>>
       /\ ytSearch = <<Song(1, YtKeys)>>
       /\ abOk = RecIds

InitBatch ==
    /\ inp \in [partitions : Directories, save : BOOLEAN, overwrite : BOOLEAN]
    /\ InitWorldBatch
    /\ dzIsrcOk = {} /\ mbIsrcOk = {}
    /\ down \in {{}, {"ab"}}
    /\ aln = <<>>
    /\ run = [p |-> 1, k |-> 1, df_list |-> <<>>, aligned |-> <<>>,
              logs |-> <<>>, exc |-> "none"]
    /\ last = NoOp

\* The partition and the file the loops of retrieve_links are at.
Running == run.exc = "none" /\ run.p \in 1..Len(inp.partitions)
Partition == inp.partitions[run.p]
AtFile == run.k \in 1..Len(Partition.files)

\* One iteration of the loop over the JAMS files; out is what reading and
\* complementing the file gave.  An exception ends retrieve_links.
LinkFileDone(j, out) ==
    /\ run' = IF out.exc # "none" THEN [run EXCEPT !.exc = out.exc]
              ELSE [run EXCEPT !.k = @ + 1,
                               !.df_list = Append(@, out.row),
                               !.aligned = IF inp.save THEN Append(@, out.jams)
                                           ELSE @]
    /\ aln' = out.self
    /\ last' = [op |-> "link_file", f |-> j.file, exc |-> out.exc, val |-> None,
                calls |-> <<>>, consulted |-> <<>>]

\* retrieve_links, line 150: the file j is passed over.
SkipFile(j) == inp.overwrite /\ j.aligned

link_file ==
    /\ Running /\ PartitionType(Partition.name) # "None" /\ AtFile
    /\ IF SkipFile(Partition.files[run.k])
       THEN /\ run' = [run EXCEPT !.k = @ + 1]
            /\ last' = [op |-> "skip_file", f |-> Partition.files[run.k].file,
                        exc |-> "none", val |-> None, calls |-> <<>>,
                        consulted |-> <<>>]
            /\ UNCHANGED aln
       ELSE LinkFileDone(Partition.files[run.k],
                         LinkFile(Partition.name, Partition.files[run.k]))
    /\ UNCHANGED <<inp, world>>

\* The loop over the files is over: linking.csv of the partition is written
\* from df_list.  A partition without a type is passed over.
end_partition ==
    /\ Running /\ (PartitionType(Partition.name) = "None" \/ ~AtFile)
    /\ run' = [run EXCEPT !.p = @ + 1, !.k = 1, !.df_list = <<>>,
                          !.logs = IF PartitionType(Partition.name) = "None"
                                   THEN @
                                   ELSE Append(@, [partition |-> Partition.name,
                                                   rows |-> run.df_list])]
    /\ last' = [op |-> "end_partition", f |-> Partition.name, exc |-> "none",
                val |-> None, calls |-> <<>>, consulted |-> <<>>]
    /\ UNCHANGED <<inp, aln, world>>

NextBatch == link_file \/ end_partition

SpecBatch == InitBatch /\ [][NextBatch]_vars


\* The titles of biab-internet-corpus records on their own: a title is made
\* of up to MaxPieces pieces.
TitlePieces == {<<"T">>, <<"A">>, <<" ">>, <<"-">>, Dash, <<"[">>, <<"]">>}
MaxPieces == 5

RECURSIVE Flatten(_)
Flatten(q) == IF q = <<>> THEN <<>> ELSE Head(q) \o Flatten(Tail(q))

Titles == {Flatten(q) : q \in SeqsUpTo(TitlePieces, MaxPieces)}

InitTitle ==
    /\ inp \in [track_title : Titles, artist_name : {None, ArtistIn}]
    /\ dzSearch = <<>> /\ dzIsrcOk = {} /\ mbById = NoRec /\ mbRelSearch = <<>>
    /\ mbSearch = <<>> /\ mbIsrcOk = {} /\ ytSearch = <<>> /\ abOk = {}
    /\ down = {}
    /\ aln = <<>>
    /\ run = NoRun
    /\ last = NoOp

\* retrieve_links, lines 177-184, applied to the title and artist of a record.
biab_title ==
    /\ last.op = "none"
    /\ last' = [op |-> "biab_title", f |-> "", exc |-> "none",
                val |-> BiabTitle(inp.track_title, inp.artist_name),
                calls |-> <<>>, consulted |-> <<>>]
    /\ UNCHANGED <<inp, aln, world, run>>

SpecTitle == InitTitle /\ [][biab_title]_vars

----------------------------------------------------------------------------
(* JAMSProcessor on one JAMS file *)

PersonNames == {"Lennon", "McCartney"}

\* The most names of a list of composers or performers.
MaxNames == 2

NameLists == {NoNames} \cup {Names(q) : q \in SeqsUpTo(PersonNames, MaxNames)}

ReleaseYearIn == <<"1969">>

\* The JAMS files JAMSProcessor is given: an attribute the sandbox does not
\* have has no value.
JamsInputs ==
    {j \in [file : {"a.jams"}, title : {TrackIn}, artist : {None, ArtistIn},
            album : {None}, duration : {DurationIn}, identifiers : {<<>>},
            genre : BOOLEAN, aligned : {FALSE},
            type : {"None", "score", "audio"},
            sandbox : SUBSET SandboxAttrs,
            track_number : {NoneN, TrackNumberIn},
            release_year : {None, ReleaseYearIn},
            composers : NameLists, performers : NameLists] :
        /\ "track_number" \notin j.sandbox => j.track_number = NoneN
        /\ "release_year" \notin j.sandbox => j.release_year = None
        /\ "composers" \notin j.sandbox => j.composers = NoNames
        /\ "performers" \notin j.sandbox => j.performers = NoNames}

InitJams ==
    /\ inp \in JamsInputs
    /\ dzSearch = <<>> /\ dzIsrcOk = {} /\ mbById = NoRec /\ mbRelSearch = <<>>
    /\ mbSearch = <<>> /\ mbIsrcOk = {} /\ ytSearch = <<>> /\ abOk = {}
    /\ down = {}
    /\ aln = NoJams
    /\ run = NoRun
    /\ last = NoOp

\* JAMSProcessor(jams_file)
jams_init ==
    /\ last.op = "none"
    /\ aln' = JAMSProcessor(inp).val
    /\ last' = [op |-> "jams_init", f |-> "", exc |-> JAMSProcessor(inp).exc,
                val |-> None, calls |-> <<>>, consulted |-> <<>>]
    /\ UNCHANGED <<inp, world, run>>

Processed == last.op # "none" /\ last.exc = "none"

\* retrieve_links builds the arguments of the Align from the processor.
linker_args ==
    /\ Processed
    /\ last' = [op |-> "linker_args", f |-> "", exc |-> "none",
                val |-> LinkerArgs("isophonics", aln), calls |-> <<>>,
                consulted |-> <<>>]
    /\ UNCHANGED <<inp, aln, world, run>>

\* jams_process.write_jams(save_path)
write_jams ==
    /\ Processed
    /\ last' = [op |-> "write_jams", f |-> "", exc |-> "none",
                val |-> WriteJams(aln), calls |-> <<>>, consulted |-> <<>>]
    /\ UNCHANGED <<inp, aln, world, run>>

NextJams == jams_init \/ linker_args \/ write_jams

SpecJams == InitJams /\ [][NextJams]_vars

----------------------------------------------------------------------------
(* The adapters on their own: one DeezerAlign or one MusicBrainzAlign *)

DzArgs ==
    [cls : {"DeezerAlign"},
     artist : {ArtistIn}, album : {AlbumIn}, track : {TrackIn},
     track_number : {NoneN, TrackNumberIn},
     duration : {NoneN, 0, DurationIn},
     isrc : IsrcInputs,
     strict : BOOLEAN]

MbArgs ==
    [cls : {"MusicBrainzAlign"},
     mbid_track : {NoId, CallerMbid},
     mbid_release : {NoId, CallerRelease},
     artist : {ArtistIn}, album : {AlbumIn}, track : {TrackIn},
     track_number : {NoneN},
     duration : {NoneN, DurationIn},
     isfloat : BOOLEAN,
     isrc : IsrcInputs,
     strict : {FALSE}]

RecId(k) == <<"rec-1", "rec-2", "rec-3", "rec-4", "rec-5">>[k]

\* Search results: the k-th recording has id RecId(k).  A search with rid=
\* is told apart by the release lists, a free-text search by the keys.
MbRelResults(n) ==
    {[k \in 1..Len(q) |-> Rec(RecId(k), FullKeys, q[k])] :
        q \in SeqsUpTo({<<OtherRelease>>, <<OtherRelease, CallerRelease>>}, n)}

MbResults(n) ==
    {[k \in 1..Len(q) |-> Rec(RecId(k), q[k], <<OtherRelease>>)] :
        q \in SeqsUpTo({FullKeys, FullKeys \ {"isrc-list"}}, n)}

InitDeezer ==
    /\ inp \in DzArgs
    /\ dzSearch \in DzResults(IF TruthyIsrc(inp.isrc) THEN 1 ELSE MaxCand)
    /\ dzIsrcOk \in (IF TruthyIsrc(inp.isrc) THEN SUBSET Codes ELSE {{}})
    /\ mbById = NoRec /\ mbRelSearch = <<>> /\ mbSearch = <<>> /\ mbIsrcOk = {}
    /\ ytSearch = <<>> /\ abOk = {} /\ down = {}
    /\ aln = DeezerAlign(inp.artist, inp.album, inp.track, inp.track_number,
                         inp.duration, inp.isrc, inp.strict)
    /\ run = NoRun
    /\ last = NoOp

InitMusicBrainz ==
    /\ inp \in MbArgs
    /\ dzSearch = <<>> /\ dzIsrcOk = {} /\ ytSearch = <<>>
    /\ abOk = {} /\ down = {}
    /\ mbById \in (IF inp.mbid_track = NoId THEN {NoRec}
                   ELSE {NoRec, Rec(CallerMbid, FullKeys, <<CallerRelease>>)})
    /\ mbRelSearch \in (IF inp.mbid_release = NoId THEN {<<>>}
                        ELSE MbRelResults(MaxRecs))
    /\ mbSearch \in MbResults(IF TruthyIsrc(inp.isrc) THEN 1 ELSE MaxRecs)
    /\ inp.duration = NoneN => inp.isfloat
    /\ mbIsrcOk \in (IF TruthyIsrc(inp.isrc) THEN SUBSET Codes ELSE {{}})
    /\ aln = [fields |-> MusicBrainzAlignFields(
                    inp.mbid_track, inp.mbid_release, inp.artist, inp.album,
                    inp.track, inp.track_number, inp.duration, inp.isfloat,
                    inp.isrc, inp.strict),
              best_match |-> NoRec, ready |-> FALSE]
    /\ run = NoRun
    /\ last = NoOp

InitAdapter == InitDeezer \/ InitMusicBrainz

\* DeezerAlign.best_match()
dz_best_match ==
    /\ inp.cls = "DeezerAlign"
    /\ last' = Done("best_match", "", DzBestMatch(aln, DurationThreshold))
    /\ UNCHANGED <<inp, aln, world, run>>

\* The accessors of DeezerAlign
dz_get ==
    /\ inp.cls = "DeezerAlign"
    /\ \E f \in {"track", "duration", "track_number", "isrc", "id"} :
            last' = Done("get", f, DzGet(aln, f))
    /\ UNCHANGED <<inp, aln, world, run>>

\* MusicBrainzAlign.__init__ evaluates get_best_match, which runs
\* get_recording(), and stores the result in self.best_match.
mb_init ==
    /\ inp.cls = "MusicBrainzAlign"
    /\ ~aln.ready
    /\ LET r == MbGetBestMatch(aln.fields)
       IN  /\ last' = Done("__init__", "", r)
           /\ aln' = [fields |-> [aln.fields EXCEPT !.mbid_track = r.mbid_track],
                      best_match |-> r.val, ready |-> TRUE]
    /\ UNCHANGED <<inp, world, run>>

\* The accessors of MusicBrainzAlign read self.best_match.
mb_get ==
    /\ inp.cls = "MusicBrainzAlign"
    /\ aln.ready
    /\ \E f \in {"track", "mbid", "isrc", "duration"} :
            last' = Done("get", f, Ret(MbAccess(aln.best_match, f), <<>>))
    /\ UNCHANGED <<inp, aln, world, run>>

NextAdapter == dz_best_match \/ dz_get \/ mb_init \/ mb_get

SpecAdapter == InitAdapter /\ [][NextAdapter]_vars

----------------------------------------------------------------------------
(* Claims about DeezerAlign and MusicBrainzAlign, under SpecAdapter *)

IsDeezer == inp.cls = "DeezerAlign"
IsMusicBrainz == inp.cls = "MusicBrainzAlign"

\* The first code of the list isrc that the set ok holds; 0 if none.
FirstOk(isrc, ok) ==
    IF \E k \in 1..Len(isrc.codes) : isrc.codes[k] \in ok
    THEN CHOOSE k \in 1..Len(isrc.codes) :
            /\ isrc.codes[k] \in ok
            /\ \A j \in 1..(k-1) : isrc.codes[j] \notin ok
    ELSE 0

NoSearchCall == \A k \in 1..Len(last.calls) : last.calls[k].op # "search"

\* C6: a DeezerAlign built with an ISRC list one of whose codes the catalog
\* knows returns from best_match() the track of the ISRC lookup, whatever
\* duration, track number and strict are; it issues no free-text search, and
\* every accessor returns that track's attribute.
C6_IsrcShortCircuit ==
    (IsDeezer /\ inp.isrc.kind = "list" /\ FirstOk(inp.isrc, dzIsrcOk) # 0) =>
        LET t == IsrcTrack(inp.isrc.codes[FirstOk(inp.isrc, dzIsrcOk)])
        IN  /\ last.op = "best_match" =>
                last.exc = "none" /\ last.val = t /\ NoSearchCall
            /\ last.op = "get" =>
                last.exc = "none" /\ last.val = DzAttr(t, last.f) /\ NoSearchCall

\* C6 witness: strict mode, a target duration and track number the ISRC
\* track does not meet, a search that has a candidate, and the second code of
\* the list is the one found.
C6_Witness ==
    /\ IsDeezer /\ last.op = "best_match"
    /\ inp.strict /\ inp.duration = DurationIn /\ inp.track_number = TrackNumberIn
    /\ Len(dzSearch) = 1
    /\ inp.isrc.kind = "list" /\ FirstOk(inp.isrc, dzIsrcOk) = 2
    /\ last.val = IsrcTrack(inp.isrc.codes[2])

\* The search candidates that pass the filters strict mode applies.
Compliant(k) ==
    /\ (inp.strict /\ inp.duration # NoneN) =>
            Abs(dzSearch[k].duration - inp.duration) <= DurationThreshold
    /\ (inp.strict /\ inp.track_number # NoneN) =>
            dzSearch[k].track_position = inp.track_number
Remaining == {k \in 1..Len(dzSearch) : Compliant(k)}

\* C7: with no ISRC, a target duration D and a search returning two or more
\* candidates of which some remain after the strict-mode filters, best_match()
\* returns the remaining candidate with the smallest abs(duration - D), the
\* earliest in search order among those that share it.
C7_ClosestDuration ==
    (/\ IsDeezer /\ last.op = "best_match"
     /\ ~TruthyIsrc(inp.isrc) /\ TruthyN(inp.duration)
     /\ Len(dzSearch) >= 2 /\ Remaining # {}) =>
        /\ last.exc = "none"
        /\ last.val.id \in Remaining
        /\ \A j \in Remaining :
              \/ Abs(dzSearch[j].duration - inp.duration)
                    > Abs(last.val.duration - inp.duration)
              \/ /\ Abs(dzSearch[j].duration - inp.duration)
                        = Abs(last.val.duration - inp.duration)
                 /\ j >= last.val.id
        /\ last.val = dzSearch[last.val.id]

\* C7 witness: three candidates, the second and third at the same distance
\* from the target on either side, and the second is returned.
C7_Witness ==
    /\ IsDeezer /\ last.op = "best_match" /\ ~TruthyIsrc(inp.isrc)
    /\ inp.duration = DurationIn /\ Len(dzSearch) = 3
    /\ dzSearch[1].duration = 6 /\ dzSearch[2].duration = 12
    /\ dzSearch[3].duration = 8
    /\ last.exc = "none" /\ last.val.id = 2

\* C8: in strict mode with no ISRC and a search returning two or more
\* candidates, the candidate best_match() returns is within DurationThreshold
\* of the target duration when one is given and has the target track number
\* when one is given.
C8_StrictFilters ==
    (/\ IsDeezer /\ last.op = "best_match" /\ inp.strict
     /\ ~TruthyIsrc(inp.isrc) /\ Len(dzSearch) >= 2
     /\ last.exc = "none" /\ last.val.id # 0) =>
        /\ TruthyN(inp.duration) =>
              Abs(last.val.duration - inp.duration) <= DurationThreshold
        /\ TruthyN(inp.track_number) =>
              last.val.track_position = inp.track_number

\* C8 witness: the first candidate of the search fails both filters and a
\* later one, which passes both, is returned.
C8_Witness ==
    /\ IsDeezer /\ last.op = "best_match" /\ inp.strict
    /\ ~TruthyIsrc(inp.isrc) /\ Len(dzSearch) >= 2
    /\ inp.duration = DurationIn /\ inp.track_number = TrackNumberIn
    /\ dzSearch[1].duration = 6 /\ dzSearch[1].track_position # TrackNumberIn
    /\ last.exc = "none" /\ last.val.id > 1

\* C9: in strict mode, when the filters leave none of the two or more
\* candidates of a search, best_match() returns None without raising and
\* every accessor returns the absent value.
C9_EmptyIsNoMatch ==
    (/\ IsDeezer /\ last.op \in {"best_match", "get"} /\ inp.strict
     /\ ~TruthyIsrc(inp.isrc) /\ Len(dzSearch) >= 2
     /\ (TruthyN(inp.duration) \/ TruthyN(inp.track_number))
     /\ Remaining = {}) =>
        /\ last.exc = "none"
        /\ last.op = "best_match" => last.val = NoTrack
        /\ last.op = "get" => last.val = NoneOf(last.f)

\* C10: when an ISRC list is given and the ISRC lookup fails for every code,
\* the adapter falls through to the free-text search, so that the best match
\* is the search's first candidate whenever the search returns one.
C10_IsrcMissFallsThrough ==
    /\ (/\ IsDeezer /\ last.op = "best_match"
        /\ inp.isrc.kind = "list" /\ TruthyIsrc(inp.isrc)
        /\ FirstOk(inp.isrc, dzIsrcOk) = 0 /\ Len(dzSearch) = 1) =>
            last.val = dzSearch[1]
    /\ (/\ IsMusicBrainz /\ last.op = "__init__"
        /\ inp.mbid_track = NoId /\ inp.mbid_release = NoId
        /\ inp.isrc.kind = "list" /\ TruthyIsrc(inp.isrc)
        /\ FirstOk(inp.isrc, mbIsrcOk) = 0
        /\ Len(mbSearch) = 1 /\ "isrc-list" \in mbSearch[1].keys) =>
            last.val = mbSearch[1]

----------------------------------------------------------------------------
(* Claims about Align, under Spec *)

\* C1: an Align constructed with artist, album and track returns exactly
\* these from get_artist(), get_album() and get_track(), without a request to
\* any catalog, whatever the catalogs hold and whether or not a track or
\* release MusicBrainz ID was given.
C1_SuppliedTextWins ==
    (inp.artist # None /\ inp.album # None /\ inp.track # None) =>
        /\ last.op = "get_artist" =>
              last.exc = "none" /\ last.val = inp.artist /\ last.calls = <<>>
        /\ last.op = "get_album" =>
              last.exc = "none" /\ last.val = inp.album /\ last.calls = <<>>
        /\ last.op = "get_track" =>
              last.exc = "none" /\ last.val = inp.track /\ last.calls = <<>>

\* C1 witness: a track ID whose recording MusicBrainz holds under another
\* title, a release ID, Deezer and YouTube candidates present, and get_track()
\* has returned the caller's title.
C1_Witness ==
    /\ inp.artist = ArtistIn /\ inp.album = AlbumIn /\ inp.track = TrackIn
    /\ inp.mbid_track = CallerMbid /\ inp.mbid_release = CallerRelease
    /\ "title" \in mbById.keys /\ MbText(mbById, "track") # TrackIn
    /\ dzSearch # <<>> /\ ytSearch # <<>>
    /\ last.op = "get_track" /\ last.val = TrackIn

FullyKnown ==
    /\ inp.artist # None /\ inp.album # None /\ inp.track # None
    /\ TruthyN(inp.track_number) /\ TruthyN(inp.duration)
    /\ inp.isrc.kind = "list" /\ TruthyIsrc(inp.isrc)

\* C2: an Align constructed with artist, album, track, track number, duration
\* and ISRC list keeps all six as given, construction included, and each of
\* their getters returns the value given, with or without a track ID.
C2_RoundTrip ==
    FullyKnown =>
        /\ last.op # "none" =>
              /\ aln.artist = inp.artist /\ aln.album = inp.album
              /\ aln.track = inp.track /\ aln.track_number = inp.track_number
              /\ aln.duration = inp.duration /\ aln.isrc = inp.isrc
        /\ last.op = "get_artist" => last.val = inp.artist
        /\ last.op = "get_album" => last.val = inp.album
        /\ last.op = "get_track" => last.val = inp.track
        /\ last.op = "get_track_number" => last.val = inp.track_number
        /\ last.op = "get_duration" => last.val = inp.duration
        /\ last.op = "get_isrc" => last.val = inp.isrc

Srcs(consulted) == [k \in 1..Len(consulted) |-> consulted[k].src]
IsPrefix(p, q) == Len(p) <= Len(q) /\ p = SubSeq(q, 1, Len(p))

\* The field a getter is about and whether the instance holds no value for it.
FieldOf(op) ==
    CASE op = "get_artist" -> "artist" [] op = "get_album" -> "album"
      [] op = "get_track" -> "track" [] op = "get_duration" -> "duration"
      [] op = "get_track_number" -> "track_number" [] op = "get_isrc" -> "isrc"
Missing(f) ==
    CASE f \in {"duration", "track_number"} -> ~TruthyN(aln[f])
      [] f = "isrc" -> ~TruthyIsrc(aln.isrc)
      [] OTHER -> aln[f] = None

\* The sources of the text fields and the duration, in order.
TextOrder ==
    (IF aln.mbid_track # NoId THEN <<"mb">> ELSE <<>>) \o <<"dz", "mb", "yt">>

\* The getter asked a prefix of the sources in order, every source but the
\* last it asked was absent, and it returned what the last one answered.
FirstNonAbsent(order) ==
    LET n == Len(last.consulted)
        none == NoneOf(FieldOf(last.op))
    IN  /\ n > 0 /\ IsPrefix(Srcs(last.consulted), order)
        /\ \A k \in 1..(n-1) : last.consulted[k].val = none
        /\ last.val = last.consulted[n].val
        /\ last.val = none => n = Len(order)

\* C3: for an artist, album, track title or duration the caller did not give
\* (and construction did not fill), the getter asks MusicBrainz (if a track ID
\* is set), Deezer, MusicBrainz, YouTube in this order, returns the first
\* value that is not absent without asking a later source, and returns absent
\* only when all of them were absent.
C3_FallbackOrder ==
    (/\ last.op \in {"get_artist", "get_album", "get_track", "get_duration"}
     /\ Missing(FieldOf(last.op))) =>
        last.exc = "none" /\ FirstNonAbsent(TextOrder)

\* C4: get_release_date() returns absent only when MusicBrainz and Deezer
\* both have no release date for the track: with a track ID it falls back
\* from MusicBrainz to Deezer, without one from Deezer to MusicBrainz.
C4_ReleaseDateFallback ==
    (last.op = "get_release_date" /\ last.exc = "none" /\ last.val = None) =>
        /\ MbGet(mb_link(aln), "release_date").val = None
        /\ DzGet(dz_link(aln), "release_date").exc = "none" =>
              DzGet(dz_link(aln), "release_date").val = None

NoVideoCatalog ==
    /\ \A k \in 1..Len(last.calls) : last.calls[k].svc # "yt"
    /\ \A k \in 1..Len(last.consulted) : last.consulted[k].src # "yt"

IdOrder == (IF aln.mbid_track # NoId THEN <<"mb">> ELSE <<>>) \o <<"dz", "mb">>

\* C5: get_track_number() and get_isrc() return the caller's value when one
\* was given and otherwise ask MusicBrainz (if a track ID is set), Deezer,
\* MusicBrainz in this order; they and get_mbid(), get_release_date(),
\* get_deezer_id(), get_deezer_link() never ask YouTube.
C5_IdentifiersOrder ==
    /\ last.op \in {"get_isrc", "get_track_number", "get_mbid",
                    "get_release_date", "get_deezer_id", "get_deezer_link"} =>
            NoVideoCatalog
    /\ (last.op = "get_track_number" /\ TruthyN(inp.track_number)) =>
            last.val = inp.track_number /\ last.calls = <<>>
    /\ (last.op = "get_isrc" /\ TruthyIsrc(inp.isrc)) =>
            last.val = inp.isrc /\ last.calls = <<>>
    /\ (last.op \in {"get_isrc", "get_track_number"} /\ last.exc = "none"
        /\ last.consulted # <<>>) =>
            FirstNonAbsent(IdOrder)

IsGetter == last.op \notin {"none", "__init__"}

\* C11: when the requests of a service fail in transport, no exception
\* leaves an Align getter: the adapter's accessor answers absent and the
\* getter goes on to the remaining sources, so that a text field or duration
\* the instance does not hold is still the first non-absent answer.
C11_TransportRecovered ==
    (down # {} /\ IsGetter) =>
        /\ last.exc = "none"
        /\ (/\ last.op \in {"get_artist", "get_album", "get_track", "get_duration"}
            /\ Missing(FieldOf(last.op))) => FirstNonAbsent(TextOrder)


\* The caller gave a track ID that the lookup by ID does not know.
RejectedId == inp.mbid_track # NoId /\ mbById = NoRec

\* C12: when the supplied track ID fails the lookup by ID, the constructed
\* instance holds no track ID: get_mbid does not answer the rejected ID,
\* get_acousticbrainz_link issues no probe, and no getter asks MusicBrainz
\* for the rejected ID again.
C12_RejectedIdCleared ==
    (RejectedId /\ "mb" \notin down /\ last.op # "none" /\ last.exc = "none") =>
        /\ aln.mbid_track = NoId
        /\ last.op = "get_mbid" => last.val # inp.mbid_track
        /\ last.op = "get_acousticbrainz_link" => last.calls = <<>>
        /\ IsGetter => \A k \in 1..Len(last.calls) : last.calls[k].op # "id"


\* The adapter was given a release ID and no track ID, and was constructed.
ReleaseOnly ==
    /\ IsMusicBrainz
    /\ inp.mbid_release # NoId /\ inp.mbid_track = NoId
    /\ aln.ready

\* The positions of the release search result whose release list holds the ID.
OnRelease == {k \in 1..Len(mbRelSearch) :
                \E j \in 1..Len(mbRelSearch[k].releases) :
                    mbRelSearch[k].releases[j] = inp.mbid_release}

FirstOnRelease == CHOOSE k \in OnRelease : \A j \in OnRelease : k <= j

\* The same adapter arguments without the release ID, and the Align built
\* from the adapter's arguments.
WithoutRelease == [aln.fields EXCEPT !.mbid_release = NoId, !.mbid_track = NoId]
AlignOfInp == AlignStart(inp).self

IsrcResolved == last.op = "get_isrc" /\ last.exc = "none" /\ TruthyIsrc(last.val)

\* C15: once get_isrc has answered a code v, the instance holds v; the next
\* get_isrc answers v without a request, and the Deezer adapter built by the
\* next getter looks v up by ISRC.
C15_IsrcCached ==
    [][IsrcResolved =>
         /\ aln.isrc = last.val
         /\ aln'.isrc = last.val
         /\ last'.op = "get_isrc" => last'.val = last.val /\ last'.calls = <<>>
         /\ last'.op \in {"get_deezer_id", "get_deezer_link"} =>
                last'.calls = <<DzIsrcCall(last.val.codes[1])>>]_<<aln, last.op, last.exc, last.calls>>


\* The track ID the instance knows: the one supplied, or the one its lookup
\* from the release ID or its search obtains.
KnownMbid == GetMbid(aln).val

\* C16: get_acousticbrainz_link answers the URL exactly when a track ID is
\* known, supplied or obtained by lookup, and its page answers 200; with no
\* known ID it answers absent without a probe.
C16_AcousticbrainzIff ==
    (last.op = "get_acousticbrainz_link" /\ last.exc = "none") =>
        /\ last.val # None <=> (KnownMbid # NoId /\ KnownMbid \in abOk)
        /\ last.val # None => last.val = AbUrl(KnownMbid)
        /\ KnownMbid = NoId => last.calls = <<>>


IsBatch == run # NoRun

\* retrieve_links has returned or an exception has ended it.
Stopped == IsBatch /\ (run.exc # "none" \/ run.p > Len(inp.partitions))

\* The audit log of partition name has been written, with a row for file.
Logged(name) == \E i \in 1..Len(run.logs) : run.logs[i].partition = name
LoggedRow(name, file) ==
    \E i \in 1..Len(run.logs) :
        /\ run.logs[i].partition = name
        /\ \E r \in 1..Len(run.logs[i].rows) : run.logs[i].rows[r].jams_file = file

\* C13: an exception raised while one record is read, resolved or written
\* does not stop the batch: when retrieve_links is over, the audit log of
\* every partition has been written and holds a row for every record whose
\* own processing raises nothing.
C13_BatchSurvives ==
    Stopped =>
        \A p \in 1..Len(inp.partitions) :
            /\ Logged(inp.partitions[p].name)
            /\ \A k \in 1..Len(inp.partitions[p].files) :
                   (/\ ~SkipFile(inp.partitions[p].files[k])
                    /\ LinkFile(inp.partitions[p].name, inp.partitions[p].files[k]).exc = "none")
                       => LoggedRow(inp.partitions[p].name, inp.partitions[p].files[k].file)


\* A file has just been read, complemented and written.
JustLinked == IsBatch /\ last.op = "link_file" /\ last.exc = "none"

\* The file just processed, the JAMS written for it and its audit row.
LastFile == inp.partitions[run.p].files[run.k - 1]
LastJams == run.aligned[Len(run.aligned)]
LastRow == run.df_list[Len(run.df_list)]

\* C17: complement_jams sets the identifiers of the record to the key-wise
\* union of the original identifiers and the resolved links: a key of the
\* original that is no link key keeps its value, every link key is present,
\* and a key of both carries the value of the link.
C17_IdentifiersUnion ==
    (JustLinked /\ inp.save) =>
        /\ DOMAIN LastJams.identifiers = DOMAIN LastFile.identifiers \cup LinkKeys
        /\ \A k \in DOMAIN LastFile.identifiers \ LinkKeys :
               LastJams.identifiers[k] = LastFile.identifiers[k]
        /\ \A k \in LinkKeys : LastJams.identifiers[k] = LastRow[k]

\* A record with a key of its own and a key that a resolved link replaces.
C17_Witness ==
    /\ JustLinked /\ inp.save
    /\ LastFile = FileB
    /\ LastJams.identifiers["imslp"] = "imslp-1"
    /\ LastJams.identifiers["youtube_url"] = <<"yt", "link", "1">>


\* No adapter has a candidate for any record, and no request fails.
NoCandidates ==
    /\ dzSearch = <<>> /\ mbById = NoRec /\ mbRelSearch = <<>>
    /\ mbSearch = <<>> /\ ytSearch = <<>> /\ down = {}

\* The value of a link that was not resolved.
AbsentLink(k) ==
    CASE k = "musicbrainz" -> NoId
      [] k = "isrc" -> NoIsrc
      [] k = "deezer_id" -> 0
      [] OTHER -> None

\* C18: when no adapter returns a candidate, complement_jams raises nothing,
\* every pair of the original identifiers is still present with its original
\* value, and every link that is not an original identifier is absent.
C18_NothingResolved ==
    (IsBatch /\ NoCandidates /\ last.op = "link_file") =>
        /\ last.f # FileC.file => last.exc = "none"
        /\ (last.exc = "none" /\ inp.save) =>
               /\ \A k \in DOMAIN LastFile.identifiers :
                      /\ k \in DOMAIN LastJams.identifiers
                      /\ LastJams.identifiers[k] = LastFile.identifiers[k]
               /\ \A k \in LinkKeys \ DOMAIN LastFile.identifiers :
                      k \in DOMAIN LastJams.identifiers =>
                          LastJams.identifiers[k] = AbsentLink(k)


\* What processing a file on its own gives has been written: its JAMS among
\* the aligned files and its row in the audit log of its partition.
WrittenAs(name, out) ==
    /\ \E i \in 1..Len(run.aligned) : run.aligned[i] = out.jams
    /\ \E i \in 1..Len(run.logs) :
           /\ run.logs[i].partition = name
           /\ \E r \in 1..Len(run.logs[i].rows) : run.logs[i].rows[r] = out.row

\* C19: the resolution of a record does not depend on the other records of
\* the batch or on their order: when retrieve_links is over, what was written
\* for a record, in its JAMS and in its audit row, is what processing that
\* record alone gives.
C19_RecordIndependent ==
    (Stopped /\ inp.save) =>
        \A p \in 1..Len(inp.partitions) :
            \A k \in 1..Len(inp.partitions[p].files) :
                (/\ ~SkipFile(inp.partitions[p].files[k])
                 /\ LinkFile(inp.partitions[p].name, inp.partitions[p].files[k]).exc = "none")
                    => WrittenAs(inp.partitions[p].name,
                                 LinkFile(inp.partitions[p].name,
                                          inp.partitions[p].files[k]))


\* The title of the record without the whitespace around it, and its forms.
Stripped == Strip(inp.track_title, Whitespace)
HasBracket(t) == Contains(t, <<"[">>) \/ Contains(t, <<"]">>)
DashForm(t) == Contains(t, Dash) /\ ~HasBracket(t)
Count(t, c) == Cardinality({i \in 1..Len(t) : t[i] = c})
BracketForm(t) ==
    /\ ~Contains(t, Dash)
    /\ Count(t, "[") = 1 /\ Count(t, "]") = 1
    /\ t[Len(t)] = "]"

\* C20: for a biab-internet-corpus record, a title "T - A" gives track T and
\* artist A, a title "T [A]" gives track T without the whitespace around it
\* and artist A, and a title of neither form leaves track and artist as they
\* were extracted.
C20_TitleForms ==
    last.op = "biab_title" =>
        /\ DashForm(Stripped) =>
               \E i \in 1..(Len(Stripped) - 2) :
                   /\ SubSeq(Stripped, i, i + 2) = Dash
                   /\ last.val.track = Strip(SubSeq(Stripped, 1, i - 1), Whitespace)
                   /\ last.val.artist = SubSeq(Stripped, i + 3, Len(Stripped))
        /\ BracketForm(Stripped) =>
               \E i \in 1..Len(Stripped) :
                   /\ Stripped[i] = "["
                   /\ last.val.track = Strip(SubSeq(Stripped, 1, i - 1), Whitespace)
                   /\ last.val.artist = SubSeq(Stripped, i + 1, Len(Stripped) - 1)
        /\ (~Contains(Stripped, Dash) /\ ~HasBracket(Stripped)) =>
               /\ last.val.track = Stripped
               /\ last.val.artist = inp.artist_name


\* The adapter was given a track ID and a release ID, and was constructed.
BothIds ==
    /\ IsMusicBrainz
    /\ inp.mbid_track # NoId /\ inp.mbid_release # NoId
    /\ aln.ready

\* C27: given a track ID and a release ID, get_recording looks the supplied
\* track ID up: the release search neither replaces nor clears it.
C27_TrackIdKept ==
    BothIds =>
        /\ aln.fields.mbid_track = inp.mbid_track
        /\ last.op = "__init__" =>
               \E k \in 1..Len(last.calls) :
                   last.calls[k] = MbCall("id", <<inp.mbid_track>>)


\* The number of lookups a list of codes needs when they are tried in order
\* up to the first code that the set ok holds.
LookupsNeeded(isrc, ok) ==
    IF FirstOk(isrc, ok) # 0 THEN FirstOk(isrc, ok) ELSE Len(isrc.codes)

\* An adapter given a list of codes and no ID has made its ISRC lookup.
IsrcLookupDone ==
    /\ inp.isrc.kind = "list" /\ TruthyIsrc(inp.isrc)
    /\ \/ IsDeezer /\ last.op = "best_match"
       \/ /\ IsMusicBrainz /\ last.op = "__init__"
          /\ inp.mbid_track = NoId /\ inp.mbid_release = NoId

\* C28: given several ISRC codes, the ISRC lookup of DeezerAlign and of
\* MusicBrainzAlign tries the codes in the order given, stops at the first
\* code whose lookup succeeds, and reports a miss only after every code failed.
C28_IsrcCodesInOrder ==
    IsrcLookupDone =>
        /\ Len(last.calls) =
               LookupsNeeded(inp.isrc, IF IsDeezer THEN dzIsrcOk ELSE mbIsrcOk)
        /\ \A k \in 1..Len(last.calls) :
               /\ last.calls[k].op = "isrc"
               /\ last.calls[k].arg = <<inp.isrc.codes[k]>>


\* C24: a MusicBrainzAlign holds the target duration it was given in
\* milliseconds, for a whole number of seconds as for a float, and its
\* get_duration answers the length of the recording in seconds.
C24_DurationUnits ==
    (IsMusicBrainz /\ aln.ready) =>
        /\ inp.duration # NoneN => aln.fields.duration = inp.duration * 1000
        /\ (last.op = "get" /\ last.f = "duration" /\ last.val # NoneN) =>
               last.val * 1000 = MbLengthMs


\* C26: the ISRC an Align holds is absent or a list of codes, never a bare
\* string, and so is the ISRC of the DeezerAlign and of the MusicBrainzAlign
\* it builds.
C26_IsrcNeverString ==
    (~IsBatch /\ last.op # "none") =>
        /\ aln.isrc.kind # "str"
        /\ dz_link(aln).isrc.kind # "str"
        /\ mb_link(aln).isrc.kind # "str"


\* The answer the getter named op gives on the instance as its constructor
\* left it, before any other getter was called.
FirstAnswer(op, self) ==
    CASE op = "get_deezer_id" -> GetDeezerId(self)
      [] op = "get_deezer_link" -> GetDeezerLink(self)
      [] op = "get_track" -> GetText(self, "track")
      [] op = "get_release_date" -> GetReleaseDate(self)

\* C25: with the services' responses fixed, get_deezer_id, get_deezer_link,
\* get_track and get_release_date answer what they answer on the freshly
\* constructed instance, whichever getters were called before them, get_isrc
\* included.
C25_GetterOrderFree ==
    (~IsBatch /\ last.op \in {"get_deezer_id", "get_deezer_link", "get_track", "get_release_date"}) =>
        /\ last.exc = FirstAnswer(last.op, AlignInit(inp).self).exc
        /\ last.val = FirstAnswer(last.op, AlignInit(inp).self).val


\* The caller supplied no artist, album, track, ISRC, nor MusicBrainz ID.
NothingSupplied ==
    /\ ~IsBatch
    /\ inp.artist = None /\ inp.album = None /\ inp.track = None
    /\ ~TruthyIsrc(inp.isrc)
    /\ inp.mbid_track = NoId /\ inp.mbid_release = NoId

\* C23: when no query field is supplied, the adapters an Align getter builds
\* issue no request to their service, the getter raises nothing, and no ISRC
\* is learned from a service.
C23_EmptyQueryRejected ==
    (NothingSupplied /\ IsGetter) =>
        /\ last.calls = <<>>
        /\ last.exc = "none"
        /\ ~TruthyIsrc(aln.isrc)


\* A non-strict adapter queried by free text: no ISRC and no MusicBrainz ID.
FreeText ==
    /\ ~inp.strict /\ ~TruthyIsrc(inp.isrc)
    /\ IsMusicBrainz => inp.mbid_track = NoId /\ inp.mbid_release = NoId

\* C22: in non-strict mode without ISRC or ID, when the free-text search
\* answers at least one candidate the best match of DeezerAlign and of
\* MusicBrainzAlign is one of the candidates returned.
C22_NonStrictKeepsCandidate ==
    /\ (IsDeezer /\ FreeText /\ last.op = "best_match" /\ dzSearch # <<>>) =>
           \E k \in 1..Len(dzSearch) : last.val = dzSearch[k]
    /\ (IsMusicBrainz /\ FreeText /\ aln.ready /\ mbSearch # <<>>) =>
           \E k \in 1..Len(mbSearch) : aln.best_match = mbSearch[k]


\* The loop over the files has just passed a file, linked or skipped.
FilePassed == IsBatch /\ last.op \in {"link_file", "skip_file"} /\ last.exc = "none"

\* The rows of df_list for the JAMS file named file.
RowsOf(file) == SelectSeq(run.df_list, LAMBDA r : r.jams_file = file)

\* C30: retrieve_links skips a record exactly when its aligned output exists
\* and overwrite is False; a skipped record gets no audit row and is not
\* written, every other record gets exactly one audit row.
C30_SkipIffNotOverwrite ==
    FilePassed =>
        /\ last.op = "skip_file" <=> (~inp.overwrite /\ LastFile.aligned)
        /\ Len(RowsOf(LastFile.file)) = IF last.op = "skip_file" THEN 0 ELSE 1


\* A JAMS file whose sandbox has a genre and the four attributes, given to
\* JAMSProcessor.
IsJams == "sandbox" \in DOMAIN inp
FullSandbox == IsJams /\ inp.genre /\ SandboxAttrs \subseteq inp.sandbox

\* C21: the constructor of JAMSProcessor raises nothing whatever lists of
\* composers and performers are present; an artist of the metadata is kept;
\* without one, and with composers or performers, the artist is the
\* composers joined with "and" for a score and the performers joined with
\* "and" for an audio record.
C21_ArtistDefault ==
    (FullSandbox /\ last.op = "jams_init") =>
        /\ last.exc = "none"
        /\ inp.artist # None => aln.artist_name = inp.artist
        /\ (/\ inp.artist = None
            /\ TruthyNames(inp.composers) \/ TruthyNames(inp.performers)) =>
               aln.artist_name = JoinAnd(IF JamsType(inp) = "score"
                                         THEN inp.composers.names
                                         ELSE inp.performers.names)


\* The sandbox attributes the JAMS file has.
Present == SandboxAttrs \cap inp.sandbox

\* C29: JAMSProcessor reads track_number, release_year, composers and
\* performers independently: an attribute the sandbox has keeps its value in
\* the processor, in the arguments of the Align and in the written record,
\* whether or not the other three are there.
C29_SandboxIndependent ==
    (IsJams /\ Processed) =>
        /\ \A f \in Present : aln[f] = inp[f]
        /\ (last.op = "linker_args" /\ "track_number" \in Present) =>
               last.val.track_number = inp.track_number
        /\ last.op = "write_jams" =>
               \A f \in Present : last.val.sandbox[f] = inp[f]

====
